---- MODULE Spec2Model ----
(***************************************************************************)
(* A model of testapp.py, a Streamlit quiz application.                    *)
(*                                                                         *)
(* Streamlit re-executes the whole script on every user interaction.  One  *)
(* action of this model is one interaction cycle: the script run that      *)
(* receives the widget event, followed by the script runs that st.rerun()  *)
(* forces, until a run ends without asking for a rerun.  The page (the     *)
(* widgets the user can act on next) is what the last run of the cycle     *)
(* rendered.                                                               *)
(*                                                                         *)
(* The generative-language API is the environment: every outbound call     *)
(* draws its response from a small set (GenResponses, DiagResponses).      *)
(* Python indexes are 0-based and kept 0-based here; a Python list l is a  *)
(* TLA+ sequence and l[i] is written At(l, i).                             *)
(***************************************************************************)
EXTENDS Integers, Sequences, FiniteSets, TLC

VARIABLES
    \* module-level state of the session, fixed when the session starts
    API_KEY,              \* st.secrets["GOOGLE_API_KEY"]
    query_params,         \* st.query_params: the parameters of the URL
    \* st.session_state
    app_state,
    questions,
    current_q_index,
    history,
    show_explanation,
    user_answer,
    generated_diagnosis,
    config,
    student_name,
    \* the page left by the last interaction cycle
    loaded,               \* the script has run at least once
    rendered,             \* the render_* routines run in the cycle, in order
    widgets,              \* the enabled buttons drawn by the cycle's last run
    messages,             \* st.warning / st.error / exception boxes of that run
    shown,                \* what that run displayed (question, metrics, feedback)
    \* outbound calls (observations, not read by the program)
    gen_calls,            \* question-generation API calls issued in the cycle
    gen_out,              \* values generate_questions returned in the cycle
    diag_calls,           \* diagnosis API calls issued since the attempt began
    \* inputs and output of the feedback selector applied on its own
    fb_correct,
    fb_total,
    fb_result

vars == << API_KEY, query_params, app_state, questions, current_q_index, history,
           show_explanation, user_answer, generated_diagnosis, config,
           student_name, loaded, rendered, widgets, messages, shown,
           gen_calls, gen_out, diag_calls, fb_correct, fb_total, fb_result >>

---------------------------------------------------------------------------
(* Bounds of the model *)

\* outbound diagnosis calls followed within one attempt
MaxDiagCalls == 2
\* largest total the feedback selector is applied to on its own
MaxTotal == 13

---------------------------------------------------------------------------
(* Python values *)

\* None, as the value of an index-valued field
None == -1

\* the empty dict {}
EmptyDict == [k \in {} |-> ""]

\* an int, and a str, where the program handles both in one place (grade)
PyInt(n) == [py |-> "int", n |-> n]
PyStr(t) == [py |-> "str", t |-> t]

\* l[i] of a Python list, 0 <= i < len(l)
At(l, i) == l[i + 1]

\* i is a valid subscript of a Python list of length n (negative ones wrap)
ValidSubscript(i, n) == (0 - n) <= i /\ i < n

\* list.index(x): the first position holding x
ListIndex(l, x) == CHOOSE i \in 0..(Len(l) - 1) :
                      /\ At(l, i) = x
                      /\ \A j \in 0..(i - 1) : At(l, j) # x

\* JSON values as json.loads returns them
JsonArray(items) == [type |-> "array", items |-> items]
JsonObject(keys) == [type |-> "object", keys |-> keys]
JsonNull == [type |-> "null"]

\* bool(v)
Truthy(v) ==
    CASE v.type = "array"  -> v.items # <<>>
      [] v.type = "object" -> v.keys # {}
      [] OTHER             -> FALSE

\* len(v)
PyLen(v) ==
    CASE v.type = "array"  -> Len(v.items)
      [] v.type = "object" -> Cardinality(v.keys)
      [] OTHER             -> 0

\* int(grade): <<TRUE, n>>, or <<FALSE, 0>> for a ValueError
DecimalStrings == {"1", "2", "3", "4", "5", "6"}
DecimalValue(t) ==
    CASE t = "1" -> 1 [] t = "2" -> 2 [] t = "3" -> 3
      [] t = "4" -> 4 [] t = "5" -> 5 [] t = "6" -> 6
PyIntOf(g) ==
    IF g.py = "int" THEN <<TRUE, g.n>>
    ELSE IF g.t \in DecimalStrings THEN <<TRUE, DecimalValue(g.t)>>
    ELSE <<FALSE, 0>>

---------------------------------------------------------------------------
(* The program's tables *)

\* keys of ASSESSMENT_TYPES
AssessmentTypeKeys ==
    {"placement", "diagnostic", "formative_small", "formative_large", "summative"}

\* the static strings the program stores in generated_diagnosis
DiagNotComputed == ""
DiagNoMisconception == "no_misconception"
DiagFallback == "cannot_generate"
DiagNoApiKey == "no_api_key"

---------------------------------------------------------------------------
(* The environment: what the user types and what the API answers *)

\* a question item of the API's JSON answer
Question(text, options, ans) ==
    [q |-> text, options |-> options, ans |-> ans, explanation |-> "why"]

Q1 == Question("q1", <<"a", "b", "c", "d">>, 0)
Q2 == Question("q2", <<"a", "b", "c", "d">>, 2)
\* two options are the same string
Q3 == Question("q3", <<"a", "b", "b", "d">>, 0)
Q4 == Question("q4", <<"a", "b", "c", "d">>, 2)
Q5 == Question("q5", <<"a", "b", "c", "d">>, 0)
\* three options only
QThreeOptions == Question("q6", <<"a", "b", "c">>, 1)
\* answer index past the last option
QAnsOutOfRange == Question("q7", <<"a", "b", "c", "d">>, 4)

\* a question item has the shape the prompt asks for
WellFormedQuestion(item) ==
    /\ Len(item.options) = 4
    /\ item.ans \in 0..3

\* what json.loads can return for the API's text
JsonValues ==
    { JsonArray(<<Q1, Q2, Q3, Q4, Q5>>),
      JsonArray(<<Q1, Q2, Q3>>),
      JsonArray(<<Q1, Q2, Q3, Q4, Q5, Q1>>),
      JsonArray(<<Q1, QThreeOptions, Q3, Q4, Q5>>),
      JsonArray(<<Q1, QAnsOutOfRange, Q3, Q4, Q5>>),
      JsonArray(<<>>),
      JsonObject({"questions"}),
      JsonNull }

\* outcomes of the question-generation call: the API call raises, the text is
\* not JSON, or the text (code fences stripped) parses to a JSON value
GenResponses ==
    { [kind |-> "error"], [kind |-> "unparsable"] }
      \cup { [kind |-> "json", value |-> v] : v \in JsonValues }

\* outcomes of the diagnosis call: it raises, or returns a text
DiagResponses ==
    { [kind |-> "error"], [kind |-> "text", text |-> ""],
      [kind |-> "text", text |-> "diagnosis"] }

\* the positions of the radio options the user picks among
UserPicks == {0, 2}

\* URLs the session can be opened with
StudentLink ==
    [k \in {"role", "subject", "grade", "unit", "type"} |->
        CASE k = "role" -> "student" [] k = "subject" -> "math"
          [] k = "grade" -> "3" [] k = "unit" -> "fractions"
          [] k = "type" -> "diagnostic"]
Without(f, k) == [x \in (DOMAIN f) \ {k} |-> f[x]]
QueryParamSets ==
    { EmptyDict, StudentLink,
      [StudentLink EXCEPT !["grade"] = "three"],
      [StudentLink EXCEPT !["type"] = "quiz"] }
      \cup { Without(StudentLink, k) : k \in {"subject", "grade", "unit", "type"} }

\* what the teacher can set on the input screen
TeacherSubjects == {"math"}
TeacherGrades == {3}
TeacherUnits == {"", "fractions"}
TeacherTypes == {"diagnostic"}
BaseUrls == {"", "http://localhost:8501"}
\* what the student can type as a name
StudentNames == {"", "01 Amy"}

---------------------------------------------------------------------------
(* Core functions *)

\* the thresholds taken as exclusive
RatioAbove(correct_count, total_q, num, den) ==
    correct_count * den > num * total_q

\* correct_count / total_q >= num / den.  The program compares the float
\* quotient with the literals 0.8 and 0.6; for the small integers of a quiz
\* the correctly rounded quotient is on the same side of the literal as the
\* exact one, so the comparison is the one between the exact fractions.
RatioAtLeast(correct_count, total_q, num, den) ==
    correct_count * den >= num * total_q

\* the tier whose messages the selector draws from, for total_q > 0
FeedbackTier(correct_count, total_q) ==
    IF correct_count = total_q THEN "top"
    ELSE IF RatioAtLeast(correct_count, total_q, 4, 5) THEN "second"
    ELSE IF RatioAtLeast(correct_count, total_q, 3, 5) THEN "third"
    ELSE "bottom"

\* get_growth_mindset_feedback; pick is the draw of random.choice.
\* divided tells whether the quotient was computed.
get_growth_mindset_feedback(correct_count, total_q, pick) ==
    IF total_q = 0
    THEN [tier |-> "no_data", variant |-> 0, divided |-> FALSE]
    ELSE [tier |-> FeedbackTier(correct_count, total_q), variant |-> pick,
          divided |-> TRUE]

\* generate_questions: the value returned (a JSON value; [] on failure), or
\* raised for the exceptions it does not catch
generate_questions(subject, grade, unit, assess_type_key, gen) ==
    IF API_KEY = ""
    THEN [raised |-> FALSE, value |-> JsonArray(<<>>), calls |-> 0,
          msgs |-> {"err_api_key"}]
    ELSE IF ~PyIntOf(grade)[1] \/ assess_type_key \notin AssessmentTypeKeys
    THEN [raised |-> TRUE, value |-> JsonArray(<<>>), calls |-> 0, msgs |-> {}]
    ELSE IF gen.kind \in {"error", "unparsable"}
    THEN [raised |-> FALSE, value |-> JsonArray(<<>>), calls |-> 1,
          msgs |-> {"err_generation"}]
    ELSE [raised |-> FALSE, value |-> gen.value, calls |-> 1, msgs |-> {}]

\* the error_details loop of generate_diagnosis and the review list of the
\* result screen subscript each item's options with both recorded indexes
ItemsPrintable(history_items) ==
    \A i \in 1..Len(history_items) :
        LET item == history_items[i]
            n == Len(item.question.options)
        IN  ValidSubscript(item.user_answer, n) /\ ValidSubscript(item.ans, n)

\* the failed call answered with an empty text
generate_diagnosis_EmptyOnError(history_items, diag) ==
    IF API_KEY = ""
    THEN [raised |-> FALSE, value |-> DiagNoApiKey, calls |-> 0]
    ELSE IF ~ItemsPrintable(history_items)
    THEN [raised |-> TRUE, value |-> DiagNotComputed, calls |-> 0]
    ELSE IF diag.kind = "error"
    THEN [raised |-> FALSE, value |-> DiagNotComputed, calls |-> 1]
    ELSE [raised |-> FALSE, value |-> diag.text, calls |-> 1]

\* generate_diagnosis
generate_diagnosis(history_items, diag) ==
    IF API_KEY = ""
    THEN [raised |-> FALSE, value |-> DiagNoApiKey, calls |-> 0]
    ELSE IF ~ItemsPrintable(history_items)
    THEN [raised |-> TRUE, value |-> DiagNotComputed, calls |-> 0]
    ELSE IF diag.kind = "error"
    THEN [raised |-> FALSE, value |-> DiagFallback, calls |-> 1]
    ELSE [raised |-> FALSE, value |-> diag.text, calls |-> 1]

---------------------------------------------------------------------------
(* One script run.  s is st.session_state together with the page being     *)
(* drawn and the call counters; s.rerun tells that the run ended in        *)
(* st.rerun().                                                             *)

\* the URL is a student link, and it carries the four configuration fields
IsStudentLink ==
    "role" \in DOMAIN query_params /\ query_params["role"] = "student"
LinkComplete ==
    {"subject", "grade", "unit", "type"} \subseteq DOMAIN query_params

NoEvent == [widget |-> "none"]

\* an exception the script does not catch: the run stops, Streamlit shows it
Raise(s) == [s EXCEPT !.messages = @ \cup {"exception"}, !.rerun = FALSE]

\* the reset leaving the diagnosis of the last attempt in place
ResetForQuiz_KeepsDiagnosis(s, new_questions) ==
    [s EXCEPT !.questions = new_questions,
              !.current_q_index = 0,
              !.history = <<>>,
              !.show_explanation = FALSE,
              !.user_answer = None,
              !.app_state = "quiz",
              !.diag_calls = 0,
              !.rerun = TRUE]

\* the reset leaving the records of the last attempt in the history
ResetForQuiz_KeepsHistory(s, new_questions) ==
    [s EXCEPT !.questions = new_questions,
              !.current_q_index = 0,
              !.generated_diagnosis = DiagNotComputed,
              !.show_explanation = FALSE,
              !.user_answer = None,
              !.app_state = "quiz",
              !.diag_calls = 0,
              !.rerun = TRUE]

\* the reset leaving the question index where the last attempt ended
ResetForQuiz_KeepsIndex(s, new_questions) ==
    [s EXCEPT !.questions = new_questions,
              !.history = <<>>,
              !.generated_diagnosis = DiagNotComputed,
              !.show_explanation = FALSE,
              !.user_answer = None,
              !.app_state = "quiz",
              !.diag_calls = 0,
              !.rerun = TRUE]

\* the assignments of start_quiz_generation when questions is truthy
ResetForQuiz(s, new_questions) ==
    [s EXCEPT !.questions = new_questions,
              !.current_q_index = 0,
              !.history = <<>>,
              !.generated_diagnosis = DiagNotComputed,
              !.show_explanation = FALSE,
              !.user_answer = None,
              !.app_state = "quiz",
              !.diag_calls = 0,
              !.rerun = TRUE]

\* start_quiz_generation asking the API a second time
start_quiz_generation_Retry(s, env) ==
    LET cfg == s.config IN
    IF cfg = EmptyDict THEN Raise(s)
    ELSE
    LET g == generate_questions(cfg.subject, cfg.grade, cfg.unit,
                                cfg.assess_type, env.gen)
        s1 == [s EXCEPT !.gen_calls = @ + 2 * g.calls,
                        !.gen_out = Append(@, g.value),
                        !.messages = @ \cup g.msgs]
    IN  IF g.raised THEN Raise([s EXCEPT !.gen_calls = @ + g.calls])
        ELSE IF Truthy(g.value) THEN ResetForQuiz(s1, g.value)
        ELSE s1

start_quiz_generation(s, env) ==
    LET cfg == s.config IN
    IF cfg = EmptyDict THEN Raise(s)
    ELSE
    LET g == generate_questions(cfg.subject, cfg.grade, cfg.unit,
                                cfg.assess_type, env.gen)
        s1 == [s EXCEPT !.gen_calls = @ + g.calls,
                        !.gen_out = Append(@, g.value),
                        !.messages = @ \cup g.msgs]
    IN  IF g.raised THEN Raise([s EXCEPT !.gen_calls = @ + g.calls])
        ELSE IF Truthy(g.value) THEN ResetForQuiz(s1, g.value)
        ELSE s1

\* str(n) as urlencode writes the grade into the link
PyStrOf(n) ==
    CASE n = 1 -> "1" [] n = 2 -> "2" [] n = 3 -> "3"
      [] n = 4 -> "4" [] n = 5 -> "5" [] n = 6 -> "6"

\* the parameters of the link the teacher screen prints
LinkParams(subject, grade, unit, assess_type) ==
    [k \in {"role", "subject", "grade", "unit", "type"} |->
        CASE k = "role" -> "student" [] k = "subject" -> subject
          [] k = "grade" -> PyStrOf(grade) [] k = "unit" -> unit
          [] k = "type" -> assess_type]

render_teacher_input_screen(s, ev, env) ==
    LET s0 == [s EXCEPT !.rendered = Append(@, "input"),
                        !.widgets = @ \cup {"gen_link"},
                        !.shown = [screen |-> "input"]]
    IN
    IF ev.widget = "gen_link" /\ ev.unit = ""
    THEN [s0 EXCEPT !.messages = @ \cup {"warn_unit"}]
    ELSE IF ev.widget = "gen_link" /\ ev.base_url = ""
    THEN [s0 EXCEPT !.messages = @ \cup {"err_base_url"}]
    ELSE
    LET s1 == IF ev.widget = "gen_link"
              THEN [s0 EXCEPT !.messages = @ \cup {"link"},
                              !.shown = [screen |-> "input",
                                         link |-> LinkParams(ev.subject, ev.grade,
                                                             ev.unit, ev.assess_type)]]
              ELSE s0
        s2 == [s1 EXCEPT !.widgets = @ \cup {"self_test"}]
    IN  IF ev.widget = "self_test"
        THEN IF ev.unit = ""
             THEN [s2 EXCEPT !.messages = @ \cup {"warn_unit"}]
             ELSE start_quiz_generation(
                      [s2 EXCEPT !.config = [subject |-> ev.subject,
                                             grade |-> PyInt(ev.grade),
                                             unit |-> ev.unit,
                                             assess_type |-> ev.assess_type]],
                      env)
        ELSE s2

\* the blank name stored all the same
RejectBlankName_StoresName(s) ==
    [s EXCEPT !.messages = @ \cup {"warn_name"}, !.student_name = ""]

\* lines 462-463: the start button was pressed with no name typed
RejectBlankName(s) == [s EXCEPT !.messages = @ \cup {"warn_name"}]

render_student_welcome_screen(s, ev, env) ==
    LET s0 == [s EXCEPT !.rendered = Append(@, "student_ready")] IN
    IF s0.config = EmptyDict THEN Raise(s0)
    ELSE
    LET s1 == [s0 EXCEPT !.widgets = @ \cup {"start"},
                         !.shown = [screen |-> "student_ready"]]
    IN  IF ev.widget = "start"
        THEN IF ev.name = ""
             THEN RejectBlankName(s1)
             ELSE start_quiz_generation([s1 EXCEPT !.student_name = ev.name], env)
        ELSE s1

\* lines 496-498: no explanation without a recorded answer
StateGuard(s) ==
    IF s.user_answer = None THEN [s EXCEPT !.show_explanation = FALSE] ELSE s

\* lines 525-527: an answer was chosen and submitted; choice is the position
\* of the radio option the user picked, user_choice the string st.radio returns
SubmitAnswer(s, current_q, choice) ==
    LET user_choice == At(current_q.options, choice) IN
    [s EXCEPT !.user_answer = ListIndex(current_q.options, user_choice),
              !.show_explanation = TRUE,
              !.rerun = TRUE]

\* Advance leaving for the result screen one question early
Advance_EndsEarly(s, current_q, user_idx, ans_idx, is_correct) ==
    LET s1 == [s EXCEPT !.history =
                   Append(@, [question |-> current_q, user_answer |-> user_idx,
                              ans |-> ans_idx, isCorrect |-> is_correct])]
    IN  IF s.current_q_index < PyLen(s.questions) - 2
        THEN [s1 EXCEPT !.current_q_index = @ + 1,
                        !.show_explanation = FALSE,
                        !.user_answer = None,
                        !.rerun = TRUE]
        ELSE [s1 EXCEPT !.app_state = "result", !.rerun = TRUE]

\* Advance incrementing the index on the last question too
Advance_AlwaysIncrement(s, current_q, user_idx, ans_idx, is_correct) ==
    LET s1 == [s EXCEPT !.history =
                   Append(@, [question |-> current_q, user_answer |-> user_idx,
                              ans |-> ans_idx, isCorrect |-> is_correct]),
                        !.current_q_index = @ + 1]
    IN  IF s.current_q_index < PyLen(s.questions) - 1
        THEN [s1 EXCEPT !.show_explanation = FALSE,
                        !.user_answer = None,
                        !.rerun = TRUE]
        ELSE [s1 EXCEPT !.app_state = "result", !.rerun = TRUE]

\* lines 541-551: the next-question button
Advance(s, current_q, user_idx, ans_idx, is_correct) ==
    LET s1 == [s EXCEPT !.history =
                   Append(@, [question |-> current_q, user_answer |-> user_idx,
                              ans |-> ans_idx, isCorrect |-> is_correct])]
    IN  IF s.current_q_index < PyLen(s.questions) - 1
        THEN [s1 EXCEPT !.current_q_index = @ + 1,
                        !.show_explanation = FALSE,
                        !.user_answer = None,
                        !.rerun = TRUE]
        ELSE [s1 EXCEPT !.app_state = "result", !.rerun = TRUE]

\* lines 529-551: the banner, the explanation and the next-question button
ExplanationPart(s, ev, current_q) ==
    LET ans_idx == current_q.ans
        user_idx == s.user_answer
        is_correct == (ans_idx = user_idx)
    IN  IF ~is_correct /\ ~ValidSubscript(ans_idx, Len(current_q.options))
        THEN Raise(s)
        ELSE
        LET s1 == [s EXCEPT !.widgets = @ \cup {"next"},
                            !.shown = [@ EXCEPT !.banner =
                                IF is_correct THEN "correct" ELSE "wrong"]]
        IN  IF ev.widget = "next"
            THEN Advance(s1, current_q, user_idx, ans_idx, is_correct)
            ELSE s1

\* the empty submission revealing the explanation all the same
RejectEmptySubmit_Reveals(s) ==
    [s EXCEPT !.messages = @ \cup {"warn_select"}, !.show_explanation = TRUE]

\* the form left enabled while the explanation is shown
DisableInteraction_Never(s) == FALSE

\* line 508: the radio and the submit button are disabled while the
\* explanation is shown
DisableInteraction(s) == s.show_explanation

\* lines 522-523: the form was submitted with no option chosen
RejectEmptySubmit(s) == [s EXCEPT !.messages = @ \cup {"warn_select"}]

render_quiz_screen(s, ev, env) ==
    LET s0 == [s EXCEPT !.rendered = Append(@, "quiz")]
        q_index == s.current_q_index
    IN
    IF q_index >= PyLen(s.questions)
    THEN [s0 EXCEPT !.app_state = "result", !.rerun = TRUE]
    ELSE
    LET s1 == StateGuard(s0) IN
    IF s1.questions.type # "array" THEN Raise(s1)
    ELSE
    LET current_q == At(s1.questions.items, q_index)
        disable_interaction == DisableInteraction(s1)
        s2 == [s1 EXCEPT !.widgets = IF disable_interaction THEN @
                                     ELSE @ \cup {"submit"},
                         !.shown = [screen |-> "quiz", q_index |-> q_index,
                                    banner |-> "none"]]
        submitted == ev.widget = "submit" /\ ~disable_interaction
    IN
    IF submitted /\ ev.choice # None
    THEN SubmitAnswer(s2, current_q, ev.choice)
    ELSE
    LET s3 == IF submitted THEN RejectEmptySubmit(s2) ELSE s2
    IN  IF s3.show_explanation THEN ExplanationPart(s3, ev, current_q) ELSE s3

\* the count taking every record as correct
CountCorrect_All(h) == Len(h)

\* sum(1 for h in history if h['isCorrect'])
RECURSIVE CountCorrect(_)
CountCorrect(h) ==
    IF h = <<>> THEN 0
    ELSE (IF Head(h).isCorrect THEN 1 ELSE 0) + CountCorrect(Tail(h))

\* [h for h in history if not h['isCorrect']]
IncorrectItems(h) == SelectSeq(h, LAMBDA item : ~item.isCorrect)

\* the diagnosis requested whether or not a record is incorrect
LazyDiagnosis_AlwaysCalls(s, incorrect_items, env) ==
    IF s.generated_diagnosis = DiagNotComputed
    THEN LET d == generate_diagnosis(incorrect_items, env.diag) IN
         IF d.raised THEN Raise(s)
         ELSE [s EXCEPT !.generated_diagnosis = d.value,
                        !.diag_calls = @ + d.calls]
    ELSE s

\* lines 575-588: the lazily generated diagnosis
LazyDiagnosis(s, incorrect_items, env) ==
    IF s.generated_diagnosis = DiagNotComputed
    THEN IF incorrect_items # <<>>
         THEN LET d == generate_diagnosis(incorrect_items, env.diag) IN
              IF d.raised THEN Raise(s)
              ELSE [s EXCEPT !.generated_diagnosis = d.value,
                             !.diag_calls = @ + d.calls]
         ELSE [s EXCEPT !.generated_diagnosis = DiagNoMisconception]
    ELSE s

\* ReturnHome forgetting to clear the explanation flag
ReturnHome_KeepsRevealed(s) ==
    [s EXCEPT !.app_state = "input",
              !.questions = JsonArray(<<>>),
              !.history = <<>>,
              !.current_q_index = 0,
              !.user_answer = None,
              !.generated_diagnosis = DiagNotComputed,
              !.diag_calls = 0,
              !.rerun = TRUE]

\* lines 612-619: the return-home button
ReturnHome(s) ==
    [s EXCEPT !.app_state = "input",
              !.questions = JsonArray(<<>>),
              !.history = <<>>,
              !.current_q_index = 0,
              !.show_explanation = FALSE,
              !.user_answer = None,
              !.generated_diagnosis = DiagNotComputed,
              !.diag_calls = 0,
              !.rerun = TRUE]

\* lines 605-619: the buttons of the result screen
ResultButtons(s, ev, env) ==
    IF IsStudentLink
    THEN LET s1 == [s EXCEPT !.widgets = @ \cup {"restart"}] IN
         IF ev.widget = "restart"
         THEN start_quiz_generation([s1 EXCEPT !.app_state = "student_ready"], env)
         ELSE s1
    ELSE LET s1 == [s EXCEPT !.widgets = @ \cup {"home"}] IN
         IF ev.widget = "home" THEN ReturnHome(s1) ELSE s1

render_result_screen(s, ev, env) ==
    LET s0 == [s EXCEPT !.rendered = Append(@, "result")]
        correct_count == CountCorrect(s.history)
        total_q == Len(s.history)
        feedback == IF total_q > 0
                    THEN get_growth_mindset_feedback(correct_count, total_q, env.pick)
                    ELSE [tier |-> "error", variant |-> 0, divided |-> FALSE]
        incorrect_items == IncorrectItems(s.history)
        s1 == [s0 EXCEPT !.shown = [screen |-> "result",
                                    correct_count |-> correct_count,
                                    total_q |-> total_q,
                                    feedback |-> feedback]]
        s2 == LazyDiagnosis(s1, incorrect_items, env)
    IN  IF "exception" \in s2.messages THEN s2
        ELSE IF ~ItemsPrintable(incorrect_items) THEN Raise(s2)
        ELSE ResultButtons(s2, ev, env)

\* the configuration taken from the link without moving to student_ready
ReadDeepLink_StaysOnInput(s) ==
    [s EXCEPT !.config = [subject |-> query_params["subject"],
                          grade |-> PyStr(query_params["grade"]),
                          unit |-> query_params["unit"],
                          assess_type |-> query_params["type"]]]

\* lines 629-635: the configuration is taken from the student link
ReadDeepLink(s) ==
    [s EXCEPT !.config = [subject |-> query_params["subject"],
                          grade |-> PyStr(query_params["grade"]),
                          unit |-> query_params["unit"],
                          assess_type |-> query_params["type"]],
              !.app_state = "student_ready"]

\* the malformed link leaving the fields it does carry in the configuration
MalformedLink_PartialConfig(s) ==
    [s EXCEPT !.messages = @ \cup {"err_link"},
              !.config = [k \in (DOMAIN query_params) \ {"role"} |->
                             query_params[k]]]

\* lines 636-638: a field of the student link is missing (KeyError while the
\* dict is built, before anything is assigned); main returns
MalformedLink(s) == [s EXCEPT !.messages = @ \cup {"err_link"}]

\* main(): the deep link is read, then the screen of app_state is rendered
main(s, ev, env) ==
    IF IsStudentLink /\ s.app_state = "input" /\ ~LinkComplete
    THEN MalformedLink(s)
    ELSE
    LET s1 == IF IsStudentLink /\ s.app_state = "input" THEN ReadDeepLink(s) ELSE s
    IN  CASE s1.app_state = "input" -> render_teacher_input_screen(s1, ev, env)
          [] s1.app_state = "student_ready" -> render_student_welcome_screen(s1, ev, env)
          [] s1.app_state = "quiz" -> render_quiz_screen(s1, ev, env)
          [] s1.app_state = "result" -> render_result_screen(s1, ev, env)

\* a script run starts from an empty page
ClearPage(s) ==
    [s EXCEPT !.widgets = {}, !.messages = {}, !.shown = [screen |-> "none"],
              !.rerun = FALSE]

\* the script runs of one interaction cycle: the run that receives the
\* event, then one run without event for every st.rerun()
RECURSIVE RunScript(_, _, _)
RunScript(s, ev, env) ==
    LET r == main(ClearPage(s), ev, env) IN
    IF r.rerun THEN RunScript(r, NoEvent, env) ELSE r

---------------------------------------------------------------------------
(* The state machine *)

\* st.session_state and the counters as one record, at the start of a cycle
Session ==
    [app_state |-> app_state, questions |-> questions,
     current_q_index |-> current_q_index, history |-> history,
     show_explanation |-> show_explanation, user_answer |-> user_answer,
     generated_diagnosis |-> generated_diagnosis, config |-> config,
     student_name |-> student_name,
     rendered |-> <<>>, widgets |-> widgets, messages |-> messages,
     shown |-> shown, gen_calls |-> 0, gen_out |-> <<>>,
     diag_calls |-> diag_calls, rerun |-> FALSE]

\* the state left by a cycle
Commit(r) ==
    /\ r.diag_calls <= MaxDiagCalls
    /\ app_state' = r.app_state
    /\ questions' = r.questions
    /\ current_q_index' = r.current_q_index
    /\ history' = r.history
    /\ show_explanation' = r.show_explanation
    /\ user_answer' = r.user_answer
    /\ generated_diagnosis' = r.generated_diagnosis
    /\ config' = r.config
    /\ student_name' = r.student_name
    /\ loaded' = TRUE
    /\ rendered' = r.rendered
    /\ widgets' = r.widgets
    /\ messages' = r.messages
    /\ shown' = r.shown
    /\ gen_calls' = r.gen_calls
    /\ gen_out' = r.gen_out
    /\ diag_calls' = r.diag_calls
    /\ UNCHANGED << API_KEY, query_params, fb_correct, fb_total, fb_result >>

\* lines 95-112: the defaults of st.session_state, and nothing drawn yet
SessionDefaults ==
    /\ app_state = "input"
    /\ questions = JsonArray(<<>>)
    /\ current_q_index = 0
    /\ history = <<>>
    /\ show_explanation = FALSE
    /\ user_answer = None
    /\ generated_diagnosis = DiagNotComputed
    /\ config = EmptyDict
    /\ student_name = "Unknown"
    /\ loaded = FALSE
    /\ rendered = <<>>
    /\ widgets = {}
    /\ messages = {}
    /\ shown = [screen |-> "none"]
    /\ gen_calls = 0
    /\ gen_out = <<>>
    /\ diag_calls = 0

FeedbackNotApplied == [tier |-> "none", variant |-> 0, divided |-> FALSE]

Init ==
    /\ API_KEY \in {"", "key"}
    /\ query_params \in QueryParamSets
    /\ SessionDefaults
    /\ fb_correct = 0
    /\ fb_total = 0
    /\ fb_result = FeedbackNotApplied

\* the choices of the environment in a cycle started by a widget: an answer
\* of the API is drawn only where the cycle can issue the call (generation
\* behind the three buttons that start a quiz, diagnosis and the feedback
\* draw on the result screen, which a cycle reaches from quiz or result)
EnvsFor(widget) ==
    [gen : IF widget \in {"self_test", "start", "restart"}
           THEN GenResponses ELSE {[kind |-> "error"]},
     diag : IF app_state \in {"quiz", "result"}
            THEN DiagResponses ELSE {[kind |-> "error"]},
     pick : IF app_state \in {"quiz", "result"} THEN {0, 1} ELSE {0}]

\* the first script run of the session
PageLoad ==
    /\ ~loaded
    /\ \E env \in EnvsFor("none") : Commit(RunScript(Session, NoEvent, env))

\* a script run without a widget event (the page is drawn again)
Rerun ==
    /\ loaded
    /\ \E env \in EnvsFor("none") : Commit(RunScript(Session, NoEvent, env))

ClickGenerateLink ==
    /\ "gen_link" \in widgets
    /\ \E subject \in TeacherSubjects, grade \in TeacherGrades,
          unit \in TeacherUnits, assess_type \in TeacherTypes,
          base_url \in BaseUrls, env \in EnvsFor("gen_link") :
          Commit(RunScript(Session,
                           [widget |-> "gen_link", subject |-> subject,
                            grade |-> grade, unit |-> unit,
                            assess_type |-> assess_type, base_url |-> base_url],
                           env))

ClickSelfTest ==
    /\ "self_test" \in widgets
    /\ \E subject \in TeacherSubjects, grade \in TeacherGrades,
          unit \in TeacherUnits, assess_type \in TeacherTypes, env \in EnvsFor("self_test") :
          Commit(RunScript(Session,
                           [widget |-> "self_test", subject |-> subject,
                            grade |-> grade, unit |-> unit,
                            assess_type |-> assess_type],
                           env))

ClickStart ==
    /\ "start" \in widgets
    /\ \E name \in StudentNames, env \in EnvsFor("start") :
          Commit(RunScript(Session, [widget |-> "start", name |-> name], env))

\* the radio options on the page are those of the current question
SubmitForm ==
    /\ "submit" \in widgets
    /\ \E choice \in {None} \cup
                     (UserPicks \cap
                      0..(Len(At(questions.items, current_q_index).options) - 1)),
          env \in EnvsFor("submit") :
          Commit(RunScript(Session, [widget |-> "submit", choice |-> choice], env))

ClickNext ==
    /\ "next" \in widgets
    /\ \E env \in EnvsFor("next") : Commit(RunScript(Session, [widget |-> "next"], env))

ClickRestart ==
    /\ "restart" \in widgets
    /\ \E env \in EnvsFor("restart") : Commit(RunScript(Session, [widget |-> "restart"], env))

ClickHome ==
    /\ "home" \in widgets
    /\ \E env \in EnvsFor("home") : Commit(RunScript(Session, [widget |-> "home"], env))

Next ==
    \/ PageLoad
    \/ Rerun
    \/ ClickGenerateLink
    \/ ClickSelfTest
    \/ ClickStart
    \/ SubmitForm
    \/ ClickNext
    \/ ClickRestart
    \/ ClickHome

Spec == Init /\ [][Next]_vars

---------------------------------------------------------------------------
(* The feedback selector applied on its own to every count and total *)

InitFeedback ==
    /\ API_KEY = "key"
    /\ query_params = EmptyDict
    /\ SessionDefaults
    /\ fb_total \in 0..MaxTotal
    /\ fb_correct \in 0..fb_total
    /\ fb_result = FeedbackNotApplied

ApplyFeedback ==
    /\ \E pick \in {0, 1} :
          fb_result' = get_growth_mindset_feedback(fb_correct, fb_total, pick)
    /\ UNCHANGED << API_KEY, query_params, app_state, questions, current_q_index,
                    history, show_explanation, user_answer, generated_diagnosis,
                    config, student_name, loaded, rendered, widgets, messages,
                    shown, gen_calls, gen_out, diag_calls, fb_correct, fb_total >>

NextFeedback == ApplyFeedback

SpecFeedback == InitFeedback /\ [][NextFeedback]_vars

---------------------------------------------------------------------------
(* Properties *)

\* C1: in every reachable state the explanation is revealed only if a
\* selection is recorded: show_explanation implies user_answer is not None.
C1_RevealedOnlyWithSelection == show_explanation => user_answer # None

\* a selection was submitted on the quiz screen and its explanation is shown
C1_Witness ==
    /\ app_state = "quiz"
    /\ show_explanation
    /\ user_answer # None
    /\ shown.screen = "quiz"
    /\ shown.banner # "none"

\* C2 as stated: within an attempt the history is as long as the current
\* question index, also after the advance on the last question, and never
\* longer than the question set.
C2_HistoryLengthIsIndex ==
    app_state \in {"quiz", "result"} =>
        /\ Len(history) = current_q_index
        /\ Len(history) <= PyLen(questions)

\* C2 amended: on the quiz screen the history is as long as the current
\* question index; once the advance on the last question has led to the
\* result screen the index is still that of the last question, so the history
\* is one longer than the index and exactly as long as the question set; the
\* history is never longer than the question set.
C2_HistoryLengthAmended ==
    /\ app_state = "quiz" => Len(history) = current_q_index
    /\ app_state = "result" =>
          /\ Len(history) = current_q_index + 1
          /\ Len(history) = PyLen(questions)
    /\ app_state \in {"quiz", "result"} => Len(history) <= PyLen(questions)

\* the advance on the last of five questions has been pressed
C2_Witness ==
    /\ app_state = "result"
    /\ PyLen(questions) = 5
    /\ Len(history) = 5
    /\ current_q_index = 4

\* a question set of exactly 5 well-formed question records
WellFormedSet(v) ==
    /\ v.type = "array"
    /\ Len(v.items) = 5
    /\ \A i \in 1..Len(v.items) : WellFormedQuestion(v.items[i])

\* C3: the session is never on the quiz screen with a question set that is
\* not exactly 5 well-formed records (any other answer of the API is an empty
\* result with an error).
C3_QuizOnlyWithWellFormedSet == app_state = "quiz" => WellFormedSet(questions)

\* C4: at most one outbound diagnosis call is issued per completed attempt,
\* whatever the first call returned.
C4_DiagnosisCalledAtMostOnce == diag_calls <= 1

\* C5: a cycle in which question generation returned an empty result leaves
\* the screen state as it was before the action.
C5_FailedGenerationKeepsScreen ==
    [][(Len(gen_out') = 1 /\ ~Truthy(gen_out'[1])) => app_state' = app_state]_vars

\* C6: every transition into quiz is made by exactly one generation call,
\* whose result is the question set of the quiz, and a step that stays in
\* quiz (submit, advance, redraw) issues no generation call.
C6_OneGenerationPerQuizEntry ==
    [][ /\ (app_state # "quiz" /\ app_state' = "quiz") =>
              (gen_calls' = 1 /\ gen_out' = <<questions'>>)
        /\ (app_state = "quiz" /\ app_state' = "quiz") => gen_calls' = 0 ]_vars

\* the quiz was entered by the restart button of the result screen
C6_Witness ==
    /\ app_state = "quiz"
    /\ rendered = <<"result", "quiz">>
    /\ gen_calls = 1
    /\ gen_out = <<questions>>

\* C7: the correct-count shown on the result screen is the number of answer
\* records whose selected index equals their stored correct index.
C7_CorrectCountShown ==
    shown.screen = "result" =>
        shown.correct_count =
            Cardinality({i \in 1..Len(history) :
                            history[i].user_answer = history[i].ans})

\* a result screen showing 3 correct of 5
C7_Witness ==
    /\ shown.screen = "result"
    /\ shown.total_q = 5
    /\ shown.correct_count = 3

\* C8: for total 5 the selector gives the top tier for 5 correct, the second
\* for 4, the third for 3 and the bottom tier for 2 or fewer; for total 0 it
\* gives the degenerate message without dividing.
C8_FeedbackTiers ==
    fb_result # FeedbackNotApplied =>
        /\ fb_total = 5 =>
              fb_result.tier = CASE fb_correct = 5 -> "top"
                                 [] fb_correct = 4 -> "second"
                                 [] fb_correct = 3 -> "third"
                                 [] OTHER -> "bottom"
        /\ fb_total = 0 => (fb_result.tier = "no_data" /\ ~fb_result.divided)
        /\ fb_total > 0 => fb_result.divided

\* the selector applied to 4 correct of 5
C8_Witness ==
    /\ fb_total = 5
    /\ fb_correct = 4
    /\ fb_result.tier = "second"

\* the cycle of a submission with no option selected
SubmitNothing ==
    /\ "submit" \in widgets
    /\ \E env \in EnvsFor("submit") :
          Commit(RunScript(Session, [widget |-> "submit", choice |-> None], env))

\* C9: a submission with no option selected leaves the question index, the
\* history, the explanation flag and the pending selection unchanged, stays
\* on the quiz screen and shows the same question with a validation message.
C9_EmptySubmitChangesNothing ==
    [][SubmitNothing =>
        /\ UNCHANGED << current_q_index, history, show_explanation, user_answer >>
        /\ app_state = "quiz"
        /\ app_state' = "quiz"
        /\ shown'.screen = "quiz"
        /\ shown'.q_index = current_q_index
        /\ "warn_select" \in messages']_vars

\* the validation message is on the page of the third question
C9_Witness ==
    /\ app_state = "quiz"
    /\ "warn_select" \in messages
    /\ current_q_index = 2
    /\ Len(history) = 2
    /\ user_answer = None

\* C10: with a link carrying role=student and the four fields, the first
\* cycle of the session ends in student_ready with the configuration made of
\* exactly those four values, and does not render the input screen.
C10_DeepLinkLandsInStudentReady ==
    [][(~loaded /\ IsStudentLink /\ LinkComplete) =>
        /\ app_state' = "student_ready"
        /\ config' = [subject |-> query_params["subject"],
                      grade |-> PyStr(query_params["grade"]),
                      unit |-> query_params["unit"],
                      assess_type |-> query_params["type"]]
        /\ \A i \in 1..Len(rendered') : rendered'[i] # "input"]_vars

\* the first cycle of a session opened with the student link has run
C10_Witness ==
    /\ loaded
    /\ query_params = StudentLink
    /\ app_state = "student_ready"
    /\ rendered = <<"student_ready">>
    /\ config.unit = "fractions"
    /\ student_name = "Unknown"

\* C11: with role=student and one of the four fields missing, every cycle
\* shows the malformed-link error and runs no render routine; the screen state
\* stays input and the configuration stays empty, so neither student_ready
\* nor quiz is reached.
C11_MalformedLinkStaysOnInput ==
    (IsStudentLink /\ ~LinkComplete) =>
        /\ app_state = "input"
        /\ config = EmptyDict
        /\ loaded => ("err_link" \in messages /\ rendered = <<>> /\ widgets = {})

\* a session opened with a student link without its unit has run
C11_Witness ==
    /\ loaded
    /\ query_params = Without(StudentLink, "unit")
    /\ "err_link" \in messages
    /\ app_state = "input"

\* C12: on the result screen of an attempt whose five answer records are all
\* correct, the top feedback tier is shown, the diagnosis is the static
\* no-misconception message, and no diagnosis call has been issued for the
\* attempt, however often the result view was drawn.
C12_AllCorrectNeedsNoDiagnosis ==
    (/\ app_state = "result"
     /\ Len(history) = 5
     /\ \A i \in 1..Len(history) : history[i].isCorrect) =>
        /\ shown.screen = "result"
        /\ shown.feedback.tier = "top"
        /\ generated_diagnosis = DiagNoMisconception
        /\ diag_calls = 0

\* the result view of a 5 of 5 attempt has been drawn again
C12_Witness ==
    /\ app_state = "result"
    /\ rendered = <<"result">>
    /\ Len(history) = 5
    /\ shown.correct_count = 5
    /\ shown.feedback.tier = "top"
    /\ generated_diagnosis = DiagNoMisconception

\* C13: the step from the result screen back to the input screen leaves the
\* session state at its defaults: configuration empty, question set empty,
\* index 0, no selection, explanation hidden, history empty, diagnosis empty.
C13_ReturnHomeResetsAll ==
    [][(app_state = "result" /\ app_state' = "input") =>
        /\ config' = EmptyDict
        /\ questions' = JsonArray(<<>>)
        /\ current_q_index' = 0
        /\ user_answer' = None
        /\ ~show_explanation'
        /\ history' = <<>>
        /\ generated_diagnosis' = DiagNotComputed]_vars

\* C14: the step from the result screen into quiz (restart of the same
\* topic, generation succeeded) keeps the configuration and resets the rest:
\* index 0, no selection, explanation hidden, history empty, diagnosis empty,
\* and the question set is the newly generated one.
C14_RestartKeepsConfigOnly ==
    [][(app_state = "result" /\ app_state' = "quiz") =>
        /\ config' = config
        /\ current_q_index' = 0
        /\ user_answer' = None
        /\ ~show_explanation'
        /\ history' = <<>>
        /\ generated_diagnosis' = DiagNotComputed
        /\ gen_out' = <<questions'>>]_vars

\* a restarted attempt, first question drawn, with the link's configuration
C14_Witness ==
    /\ app_state = "quiz"
    /\ rendered = <<"result", "quiz">>
    /\ shown.screen = "quiz"
    /\ shown.q_index = 0
    /\ history = <<>>
    /\ config.unit = query_params["unit"]
    /\ widgets = {"submit"}

\* a cycle that draws the result view (on the advance from the last question,
\* or on a redraw) and whose diagnosis call fails
DiagnosisFails ==
    \E ev \in {NoEvent, [widget |-> "next"]}, pick \in {0, 1} :
        /\ IF ev.widget = "next" THEN "next" \in widgets ELSE loaded
        /\ LET env == [gen |-> [kind |-> "error"], diag |-> [kind |-> "error"],
                       pick |-> pick]
               r == RunScript(Session, ev, env)
           IN  r.diag_calls = diag_calls + 1 /\ Commit(r)

\* C15: when the diagnosis call fails the diagnosis is the static fallback
\* string and the result screen is drawn as usual, without an error; and
\* from a result screen holding the fallback no step issues a further
\* diagnosis call for the attempt.
C15_DiagnosisFailureDegrades ==
    [][ /\ DiagnosisFails =>
              /\ generated_diagnosis' = DiagFallback
              /\ app_state' = "result"
              /\ shown'.screen = "result"
              /\ widgets' # {}
              /\ "exception" \notin messages'
        /\ (app_state = "result" /\ generated_diagnosis = DiagFallback) =>
              /\ diag_calls' <= diag_calls
              /\ app_state' = "result" => generated_diagnosis' = DiagFallback ]_vars

\* the result view holding the fallback has been drawn again, one call made
C15_Witness ==
    /\ app_state = "result"
    /\ rendered = <<"result">>
    /\ generated_diagnosis = DiagFallback
    /\ diag_calls = 1
    /\ shown.screen = "result"

\* the cycle of the start button pressed with a blank name
StartBlank ==
    /\ "start" \in widgets
    /\ \E env \in EnvsFor("start") :
          Commit(RunScript(Session, [widget |-> "start", name |-> ""], env))

\* C16: the start action with a blank name stays on student_ready, changes no
\* session field and issues no generation call; a step from student_ready
\* into quiz stores a non-blank name.
C16_BlankNameBlocksStart ==
    [][ /\ StartBlank =>
              /\ app_state = "student_ready"
              /\ app_state' = "student_ready"
              /\ UNCHANGED << questions, current_q_index, history, user_answer,
                              show_explanation, generated_diagnosis, config,
                              student_name >>
              /\ gen_calls' = 0
              /\ gen_out' = <<>>
              /\ "warn_name" \in messages'
        /\ (app_state = "student_ready" /\ app_state' = "quiz") =>
              (student_name' # "" /\ gen_calls' = 1) ]_vars

\* the welcome screen shows the name warning
C16_Witness ==
    /\ app_state = "student_ready"
    /\ "warn_name" \in messages
    /\ shown.screen = "student_ready"
    /\ student_name = "Unknown"
    /\ gen_calls = 0

\* C17: while the explanation is shown the submit button is disabled; the
\* recorded selection does not change while the explanation of a question
\* stays shown, and the record appended by the advance carries it.
C17_SelectionFixedOnceRevealed ==
    [][ /\ (app_state' = "quiz" /\ show_explanation') => "submit" \notin widgets'
        /\ (/\ app_state = "quiz" /\ show_explanation
            /\ app_state' = "quiz" /\ show_explanation'
            /\ current_q_index' = current_q_index) => user_answer' = user_answer
        /\ (app_state = "quiz" /\ Len(history') = Len(history) + 1) =>
              /\ show_explanation
              /\ history'[Len(history')].user_answer = user_answer ]_vars

\* the first question was answered with its third option and advanced, and
\* the second is answered and revealed
C17_Witness ==
    /\ app_state = "quiz"
    /\ Len(history) = 1
    /\ history[1].user_answer = 2
    /\ show_explanation
    /\ widgets = {"next"}

\* the cycle of a submission with the radio option at position p selected
SubmitPick(p) ==
    /\ "submit" \in widgets
    /\ p < Len(At(questions.items, current_q_index).options)
    /\ \E env \in EnvsFor("submit") :
          Commit(RunScript(Session, [widget |-> "submit", choice |-> p], env))

\* C18: a submission with the option at position p selected, on a question
\* with four options and a correct index in 0..3, records p as the selection,
\* reveals the explanation, and shows the answer as correct exactly if p is
\* the stored correct index.
C18_SubmitRecordsPickedPosition ==
    [][\A p \in UserPicks :
        (/\ SubmitPick(p)
         /\ WellFormedQuestion(At(questions.items, current_q_index))) =>
            /\ user_answer' = p
            /\ show_explanation'
            /\ shown'.banner =
                  IF p = At(questions.items, current_q_index).ans
                  THEN "correct" ELSE "wrong"]_vars

\* C19: on the result screen the history has one record per question of the
\* question set.
C19_ResultHasAllAnswers ==
    app_state = "result" => Len(history) = PyLen(questions)

\* the result screen of an attempt on a set of three questions
C19_Witness ==
    /\ app_state = "result"
    /\ shown.screen = "result"
    /\ PyLen(questions) = 3
    /\ Len(history) = 3

\* C20: in quiz and result the i-th record of the history is about the i-th
\* question of the current question set.
C20_RecordsFollowQuestions ==
    app_state \in {"quiz", "result"} =>
        /\ Len(history) <= PyLen(questions)
        /\ \A i \in 1..Len(history) :
              history[i].question = At(questions.items, i - 1)

\* on the third question of an attempt, the records of the first two held
C20_Witness ==
    /\ app_state = "quiz"
    /\ current_q_index = 2
    /\ Len(history) = 2
    /\ history[1].question = Q1
    /\ history[2].question = Q2

\* the cycle of a submission with some option selected
SubmitSelection == \E p \in UserPicks : SubmitPick(p)

\* the session of a user who keeps submitting a selection when the form is
\* enabled and keeps pressing the next-question button when it is drawn
SpecLive ==
    Init /\ [][Next]_vars /\ WF_vars(SubmitSelection) /\ WF_vars(ClickNext)

\* C21: once quiz is entered with a question set that is a sequence of at
\* least one question record, a user who keeps submitting a selection and
\* pressing the next-question button eventually reaches the result screen.
C21_QuizReachesResult ==
    (/\ app_state = "quiz"
     /\ questions.type = "array"
     /\ PyLen(questions) >= 1) ~> (app_state = "result")

\* C22: the diagnosis is empty whenever the screen state is quiz, and a
\* diagnosis held on the result screen is the no-misconception text exactly
\* if the history of the current attempt has no incorrect record.
C22_DiagnosisOfCurrentAttempt ==
    /\ app_state = "quiz" => generated_diagnosis = DiagNotComputed
    /\ (app_state = "result" /\ generated_diagnosis # DiagNotComputed) =>
          (generated_diagnosis = DiagNoMisconception
              <=> IncorrectItems(history) = <<>>)

\* the first question of a new attempt, drawn in the cycle of the restart
\* button of a result view
C22_Witness ==
    /\ app_state = "quiz"
    /\ rendered = <<"result", "quiz">>
    /\ current_q_index = 0
    /\ generated_diagnosis = DiagNotComputed

====
